---- MODULE Spec2Model ----
(***************************************************************************)
(* Model of src/main.cpp: the per-channel contour pipeline                 *)
(* (contourCalc -> filterCells -> separationMetrics) and the batch loop    *)
(* of main.                                                                *)
(*                                                                         *)
(* Units.  Areas are whole pixel^2 (contourArea returns multiples of 0.5;  *)
(* the half is not modelled).  Arc lengths are in thousandths of a pixel.  *)
(* aggregate_diameter is kept in tenths of a pixel, aggregate_aspect_ratio *)
(* in thousandths (fixed point in place of float).                         *)
(***************************************************************************)
EXTENDS Integers, Sequences, FiniteSets, TLC

(* ---------------------------------------------------------------------- *)
(* Program constants                                                      *)
(* ---------------------------------------------------------------------- *)
BIN_AREA == 40
NUM_BINS == 11
MIN_ARC_LENGTH == 20
PI_HUNDREDTHS == 314
min_area == 1

INVALID_CNTR == "INVALID_CNTR"
CHILD_CNTR == "CHILD_CNTR"
PARENT_CNTR == "PARENT_CNTR"
HierarchyType == {INVALID_CNTR, CHILD_CNTR, PARENT_CNTR}

(* ---------------------------------------------------------------------- *)
(* Bounds                                                                 *)
(* ---------------------------------------------------------------------- *)
MaxContours == 3
WalkSlack == 1
MaxImages == 3

(* ---------------------------------------------------------------------- *)
(* Traced polygons.  A polygon is represented by what the code asks       *)
(* OpenCV about it: its area, its number of points, its closed arc        *)
(* length and the sides of its minimum-area rectangle.                    *)
(* ---------------------------------------------------------------------- *)
Shapes ==
    { [area |-> 0,     points |-> 2, arc |-> 8000,   width |-> 4,   height |-> 1],
      [area |-> 45,    points |-> 5, arc |-> 20000,  width |-> 9,   height |-> 5],
      [area |-> 45,    points |-> 5, arc |-> 19999,  width |-> 5,   height |-> 9],
      [area |-> 100,   points |-> 8, arc |-> 40000,  width |-> 10,  height |-> 10],
      [area |-> 100,   points |-> 4, arc |-> 40000,  width |-> 10,  height |-> 10],
      [area |-> 10000, points |-> 8, arc |-> 400000, width |-> 100, height |-> 100] }

MalformedShapes ==
    { s \in Shapes : s.points \in {2, 8} }

contourArea(c) == c.area
arcLength(c) == c.arc
minAreaRect(c) == [width |-> c.width, height |-> c.height]

(* contours[i] for i in 0..n-1; id stands for the polygon's point data *)
ContourVectors(n, shapes) ==
    { [i \in 0..(n-1) |-> [id |-> i, area |-> f[i].area, points |-> f[i].points,
                           arc |-> f[i].arc, width |-> f[i].width,
                           height |-> f[i].height]] :
        f \in [0..(n-1) -> shapes] }

(* ---------------------------------------------------------------------- *)
(* Containment hierarchy: cv::Vec4i per polygon,                          *)
(* [0] next sibling, [1] previous sibling, [2] first child, [3] parent.   *)
(* ---------------------------------------------------------------------- *)
NextLink(h, i) == h[i][1]
PrevLink(h, i) == h[i][2]
ChildLink(h, i) == h[i][3]
ParentLink(h, i) == h[i][4]

SetMin(S) == CHOOSE x \in S : \A y \in S : x <= y
SetMax(S) == CHOOSE x \in S : \A y \in S : x >= y

RECURSIVE ReachesRoot(_, _, _)
ReachesRoot(p, i, fuel) ==
    IF i = -1 THEN TRUE
    ELSE IF fuel = 0 THEN FALSE
    ELSE ReachesRoot(p, p[i], fuel - 1)

(* parent functions that describe a forest *)
ParentFunctions(n) ==
    { p \in [0..(n-1) -> -1..(n-1)] : \A i \in 0..(n-1) : ReachesRoot(p, i, n) }

(* the four links of a forest; siblings are chained in index order *)
HierarchyOf(n, p) ==
    [i \in 0..(n-1) |->
        LET after == { k \in 0..(n-1) : p[k] = p[i] /\ k > i }
            before == { k \in 0..(n-1) : p[k] = p[i] /\ k < i }
            kids == { k \in 0..(n-1) : p[k] = i }
        IN << IF after = {} THEN -1 ELSE SetMin(after),
              IF before = {} THEN -1 ELSE SetMax(before),
              IF kids = {} THEN -1 ELSE SetMin(kids),
              p[i] >>]

WellFormedHierarchies(n) == { HierarchyOf(n, p) : p \in ParentFunctions(n) }

(* a forest with one next-sibling link of a hole redirected: to the first *)
(* hole of the same parent (a cycle) or to n (out of range)               *)
Redirected(h, n, j) ==
    { [h EXCEPT ![j] = << v, h[j][2], h[j][3], h[j][4] >>] :
        v \in { ChildLink(h, ParentLink(h, j)), n } }

MalformedHierarchies(n) ==
    UNION { UNION { Redirected(h, n, j) :
                      j \in { k \in 0..(n-1) :
                                /\ ParentLink(h, k) > -1
                                /\ ParentLink(h, ParentLink(h, k)) = -1 } } :
            h \in WellFormedHierarchies(n) }

RECURSIVE ChainFrom(_, _, _, _)
(* the polygons on the next-sibling chain starting at link i *)
ChainFrom(h, n, i, fuel) ==
    IF i < 0 \/ i > n - 1 \/ fuel = 0 THEN {}
    ELSE {i} \cup ChainFrom(h, n, NextLink(h, i), fuel - 1)

HoleChain(h, n, i) == ChainFrom(h, n, ChildLink(h, i), n)

(* ---------------------------------------------------------------------- *)
(* State                                                                  *)
(* ---------------------------------------------------------------------- *)
VARIABLES
    pc,                      \* position in the channel pipeline
    n,                       \* contours->size()
    contours,                \* traced polygons, index 0..n-1
    hierarchy,               \* their links
    validity_mask,           \* role per polygon
    parent_area,             \* net area per polygon
    index,                   \* outer loop variable of contourCalc
    cntr_list,               \* external boundary followed by its holes
    index_hole,              \* hole walk cursor
    area_hole,               \* summed hole area
    filtered_contours,
    filtered_contour_mask,
    filtered_contours_area,
    metrics,                 \* the record separationMetrics returns
    mpc,                     \* position in main
    input_images,            \* image names read from image_list.dat
    readable,                \* names whose file decodes to a non-empty image
    img_index,               \* loop variable of main
    data_stream,             \* lines written to computed_metrics.csv
    exit_code                \* value returned by main

pipeVars == << pc, n, contours, hierarchy, validity_mask, parent_area, index,
               cntr_list, index_hole, area_hole, filtered_contours,
               filtered_contour_mask, filtered_contours_area, metrics >>
mainVars == << mpc, input_images, readable, img_index, data_stream, exit_code >>
vars == << pc, n, contours, hierarchy, validity_mask, parent_area, index,
           cntr_list, index_hole, area_hole, filtered_contours,
           filtered_contour_mask, filtered_contours_area, metrics,
           mpc, input_images, readable, img_index, data_stream, exit_code >>

(* ---------------------------------------------------------------------- *)
(* contourCalc                                                            *)
(* ---------------------------------------------------------------------- *)
InRange(i) == i >= 0 /\ i <= n - 1

(* line 110, mutated: no polygon is taken for a child *)
IgnoreChild_None(h, i) == FALSE

(* line 110: a parent link above -1 means continue *)
IgnoreChild(h, i) == ParentLink(h, i) > -1

(* line 123, mutated: a hole of area zero is collected too *)
CountsAsHole_Any(temp_area_hole) == TRUE

(* line 123: if (temp_area_hole) *)
CountsAsHole(temp_area_hole) == temp_area_hole # 0

(* line 129, mutated: the hole area is not subtracted *)
AreaContour_External(area_external, holes) == area_external

(* line 129: area_contour = area_external - area_hole *)
AreaContour(area_external, holes) == area_external - holes

(* line 130, mutated: the net area is not tested *)
KeepContour_Always(area_contour) == TRUE

(* line 130: if (area_contour >= min_area) *)
KeepContour(area_contour) == area_contour >= min_area

(* lines 102-105: nothing is assigned for an empty contour vector *)
ContourCalcBegin ==
    /\ pc = "contourCalc"
    /\ IF n = 0
       THEN /\ pc' = "filterCells"
            /\ UNCHANGED << validity_mask, parent_area >>
       ELSE /\ validity_mask' = [i \in 0..(n-1) |-> INVALID_CNTR]
            /\ parent_area' = [i \in 0..(n-1) |-> 0]
            /\ pc' = "outer"
    /\ index' = 0
    /\ UNCHANGED << n, contours, hierarchy, cntr_list, index_hole, area_hole,
                    filtered_contours, filtered_contour_mask,
                    filtered_contours_area, metrics, mainVars >>

(* line 110: a polygon with a parent is not a candidate *)
OuterSkipChild ==
    /\ pc = "outer"
    /\ index < n
    /\ IgnoreChild(hierarchy, index)
    /\ index' = index + 1
    /\ UNCHANGED << pc, n, contours, hierarchy, validity_mask, parent_area,
                    cntr_list, index_hole, area_hole, filtered_contours,
                    filtered_contour_mask, filtered_contours_area, metrics,
                    mainVars >>

(* lines 111-113 *)
OuterSkipSmall ==
    /\ pc = "outer"
    /\ index < n
    /\ ~IgnoreChild(hierarchy, index)
    /\ contourArea(contours[index]) < min_area
    /\ index' = index + 1
    /\ UNCHANGED << pc, n, contours, hierarchy, validity_mask, parent_area,
                    cntr_list, index_hole, area_hole, filtered_contours,
                    filtered_contour_mask, filtered_contours_area, metrics,
                    mainVars >>

(* lines 115-119 *)
OuterStartWalk ==
    /\ pc = "outer"
    /\ index < n
    /\ ~IgnoreChild(hierarchy, index)
    /\ ~(contourArea(contours[index]) < min_area)
    /\ cntr_list' = << index >>
    /\ index_hole' = ChildLink(hierarchy, index)
    /\ area_hole' = 0
    /\ pc' = "walk"
    /\ UNCHANGED << n, contours, hierarchy, validity_mask, parent_area, index,
                    filtered_contours, filtered_contour_mask,
                    filtered_contours_area, metrics, mainVars >>

(* lines 120-128, one iteration on a hole inside the vectors *)
WalkStep ==
    /\ pc = "walk"
    /\ index_hole > -1
    /\ InRange(index_hole)
    /\ Len(cntr_list) <= n + WalkSlack
    /\ LET temp_area_hole == contourArea(contours[index_hole])
       IN IF CountsAsHole(temp_area_hole)
          THEN /\ cntr_list' = Append(cntr_list, index_hole)
               /\ area_hole' = area_hole + temp_area_hole
          ELSE UNCHANGED << cntr_list, area_hole >>
    /\ index_hole' = NextLink(hierarchy, index_hole)
    /\ UNCHANGED << pc, n, contours, hierarchy, validity_mask, parent_area,
                    index, filtered_contours, filtered_contour_mask,
                    filtered_contours_area, metrics, mainVars >>

(* lines 121-127 with index_hole past the end of the vectors: the reads   *)
(* are undefined; the build may fault or go on with whatever it read      *)
WalkStepOutOfRange ==
    /\ pc = "walk"
    /\ index_hole > -1
    /\ ~InRange(index_hole)
    /\ Len(cntr_list) <= n + WalkSlack
    /\ \/ /\ pc' = "crashed"
          /\ UNCHANGED << cntr_list, area_hole, index_hole >>
       \/ \E temp_area_hole \in {0, 45}, garbage_next \in -1..(n-1) :
            /\ IF CountsAsHole(temp_area_hole)
               THEN /\ cntr_list' = Append(cntr_list, index_hole)
                    /\ area_hole' = area_hole + temp_area_hole
               ELSE UNCHANGED << cntr_list, area_hole >>
            /\ index_hole' = garbage_next
            /\ UNCHANGED pc
    /\ UNCHANGED << n, contours, hierarchy, validity_mask, parent_area,
                    index, filtered_contours, filtered_contour_mask,
                    filtered_contours_area, metrics, mainVars >>

(* lines 133-135 *)
RECURSIVE MarkChildren(_, _, _)
MarkChildren(mask, list, i) ==
    IF i > Len(list) THEN mask
    ELSE MarkChildren(IF list[i] \in DOMAIN mask
                      THEN [mask EXCEPT ![list[i]] = CHILD_CNTR]
                      ELSE mask,
                      list, i + 1)

(* lines 129-139 and the loop increment of line 109 *)
WalkExit ==
    /\ pc = "walk"
    /\ ~(index_hole > -1)
    /\ LET area_contour == AreaContour(contourArea(contours[index]), area_hole)
       IN IF KeepContour(area_contour)
          THEN /\ validity_mask' =
                     MarkChildren([validity_mask EXCEPT ![cntr_list[1]] = PARENT_CNTR],
                                  cntr_list, 2)
               /\ parent_area' = [parent_area EXCEPT ![cntr_list[1]] = area_contour]
          ELSE UNCHANGED << validity_mask, parent_area >>
    /\ index' = index + 1
    /\ pc' = "outer"
    /\ UNCHANGED << n, contours, hierarchy, cntr_list, index_hole, area_hole,
                    filtered_contours, filtered_contour_mask,
                    filtered_contours_area, metrics, mainVars >>

(* line 134 storing through an index past the end of validity_mask *)
WalkExitOutOfRange ==
    /\ pc = "walk"
    /\ ~(index_hole > -1)
    /\ KeepContour(AreaContour(contourArea(contours[index]), area_hole))
    /\ \E i \in 2..Len(cntr_list) : ~InRange(cntr_list[i])
    /\ pc' = "crashed"
    /\ UNCHANGED << n, contours, hierarchy, validity_mask, parent_area, index,
                    cntr_list, index_hole, area_hole, filtered_contours,
                    filtered_contour_mask, filtered_contours_area, metrics,
                    mainVars >>

(* line 109, loop condition false: contourCalc returns *)
OuterExit ==
    /\ pc = "outer"
    /\ ~(index < n)
    /\ pc' = "filterCells"
    /\ UNCHANGED << n, contours, hierarchy, validity_mask, parent_area, index,
                    cntr_list, index_hole, area_hole, filtered_contours,
                    filtered_contour_mask, filtered_contours_area, metrics,
                    mainVars >>

(* ---------------------------------------------------------------------- *)
(* filterCells                                                            *)
(* ---------------------------------------------------------------------- *)
(* line 155, mutated: the point test is off by one *)
Accepted_FourPoints(cs, mask, i) ==
    /\ ~(mask[i] # PARENT_CNTR)
    /\ ~(cs[i].points < 4)
    /\ arcLength(cs[i]) >= MIN_ARC_LENGTH * 1000

(* lines 152, 155, 158 *)
Accepted(cs, mask, i) ==
    /\ ~(mask[i] # PARENT_CNTR)
    /\ ~(cs[i].points < 5)
    /\ arcLength(cs[i]) >= MIN_ARC_LENGTH * 1000

RECURSIVE FilterFrom(_, _, _, _, _, _)
(* the loop of lines 151-163; acc holds the three output vectors *)
FilterFrom(cs, mask, areas, size, i, acc) ==
    IF ~(i < size) THEN acc
    ELSE FilterFrom(cs, mask, areas, size, i + 1,
            IF Accepted(cs, mask, i)
            THEN [contours |-> Append(acc.contours, cs[i]),
                  mask |-> Append(acc.mask, mask[i]),
                  area |-> Append(acc.area, areas[i])]
            ELSE acc)

filterCells(cs, mask, areas, size) ==
    FilterFrom(cs, mask, areas, size, 0,
               [contours |-> << >>, mask |-> << >>, area |-> << >>])

FilterCellsStep ==
    /\ pc = "filterCells"
    /\ LET out == filterCells(contours, validity_mask, parent_area, n)
       IN /\ filtered_contours' = out.contours
          /\ filtered_contour_mask' = out.mask
          /\ filtered_contours_area' = out.area
    /\ pc' = "separationMetrics"
    /\ UNCHANGED << n, contours, hierarchy, validity_mask, parent_area, index,
                    cntr_list, index_hole, area_hole, metrics, mainVars >>

(* ---------------------------------------------------------------------- *)
(* separationMetrics                                                      *)
(* ---------------------------------------------------------------------- *)
RECURSIVE IsqrtIn(_, _, _)
IsqrtIn(x, lo, hi) ==
    IF lo >= hi THEN lo
    ELSE LET mid == (lo + hi + 1) \div 2
         IN IF mid * mid <= x THEN IsqrtIn(x, mid, hi) ELSE IsqrtIn(x, lo, mid - 1)

Isqrt(x) == IsqrtIn(x, 0, 46340)

(* 2 * sqrt(area / PI), in tenths *)
Diameter(area) == Isqrt((40000 * area) \div PI_HUNDREDTHS)

(* lines 175-177, in thousandths *)
AspectRatio(c) ==
    LET r == minAreaRect(c)
        aspect_ratio == (1000 * r.width) \div r.height
    IN IF aspect_ratio > 1000 THEN 1000000 \div aspect_ratio ELSE aspect_ratio

(* lines 182-183, mutated: the quotient is rounded to nearest *)
BinIndex_Rounded(area) ==
    IF area < NUM_BINS * BIN_AREA
    THEN (area + BIN_AREA \div 2) \div BIN_AREA
    ELSE NUM_BINS - 1

(* lines 182-183 *)
BinIndex(area) ==
    IF area < NUM_BINS * BIN_AREA THEN area \div BIN_AREA ELSE NUM_BINS - 1

(* line 180: the area the aggregator works from *)
MetricArea(cs, i) == contourArea(cs[i])

RECURSIVE MetricsFrom(_, _, _)
(* the loop of lines 174-185 *)
MetricsFrom(cs, i, acc) ==
    IF i > Len(cs) THEN acc
    ELSE LET area == MetricArea(cs, i)
             bin_index == BinIndex(area)
         IN MetricsFrom(cs, i + 1,
               [aggregate_diameter |-> acc.aggregate_diameter + Diameter(area),
                aggregate_aspect_ratio |->
                    acc.aggregate_aspect_ratio + AspectRatio(cs[i]),
                count |-> [acc.count EXCEPT ![bin_index] = @ + 1]])

(* lines 170-194; the returned text is kept as its fields *)
separationMetrics(cs) ==
    LET acc == MetricsFrom(cs, 1,
                  [aggregate_diameter |-> 0, aggregate_aspect_ratio |-> 0,
                   count |-> [b \in 0..(NUM_BINS - 1) |-> 0]])
    IN [size |-> Len(cs),
        aggregate_diameter |-> acc.aggregate_diameter,
        aggregate_aspect_ratio |-> acc.aggregate_aspect_ratio,
        count |-> acc.count]

(* processImage lines 284-290: only the filtered polygons are handed on *)
SeparationMetricsStep ==
    /\ pc = "separationMetrics"
    /\ metrics' = separationMetrics(filtered_contours)
    /\ pc' = "done"
    /\ UNCHANGED << n, contours, hierarchy, validity_mask, parent_area, index,
                    cntr_list, index_hole, area_hole, filtered_contours,
                    filtered_contour_mask, filtered_contours_area, mainVars >>

(* ---------------------------------------------------------------------- *)
(* main and processImage                                                  *)
(* ---------------------------------------------------------------------- *)
ImageNames == {"a.tif", "b.tif", "c.tif"}

ImageLists == UNION { [1..k -> ImageNames] : k \in 0..MaxImages }

ChannelOrder == << "Green", "Red", "White" >>

(* lines 439-445, 448-454, 457-463: the columns of one channel *)
ChannelHeader(ch) ==
    << << ch, "Contour_Count" >>,
       << ch, "Contour_Diameter_(mean)" >>,
       << ch, "Contour_Aspect_Ratio_(mean)" >> >>
    \o [i \in 1..(NUM_BINS - 1) |->
            << ch, "Contour_Area", (i - 1) * BIN_AREA, i * BIN_AREA >>]
    \o << << ch, "Contour_Area >=", (NUM_BINS - 1) * BIN_AREA >> >>

(* lines 436-465 *)
Header ==
    << "Image_Name" >> \o ChannelHeader(ChannelOrder[1])
                       \o ChannelHeader(ChannelOrder[2])
                       \o ChannelHeader(ChannelOrder[3])

(* the text separationMetrics returns for one channel of one image; the   *)
(* computation behind it is the pipeline above                            *)
ChannelRecord(ch, image_name) == [channel |-> ch, image |-> image_name]

(* processImage, mutated: the red record is appended before the green *)
processImage_RedFirst(image_name, decodes) ==
    IF ~decodes
    THEN [ok |-> FALSE, result |-> << image_name >>]
    ELSE [ok |-> TRUE,
          result |-> << image_name,
                        ChannelRecord("Red", image_name),
                        ChannelRecord("Green", image_name),
                        ChannelRecord("White", image_name) >>]

(* processImage: lines 200, 213-217, 290, 302, 314, 395 *)
processImage(image_name, decodes) ==
    IF ~decodes
    THEN [ok |-> FALSE, result |-> << image_name >>]
    ELSE [ok |-> TRUE,
          result |-> << image_name,
                        ChannelRecord("Green", image_name),
                        ChannelRecord("Red", image_name),
                        ChannelRecord("White", image_name) >>]

(* lines 428-434: the metrics file cannot be created *)
MainOpenFail ==
    /\ mpc = "open"
    /\ exit_code' = << -1 >>
    /\ mpc' = "returned"
    /\ UNCHANGED << input_images, readable, img_index, data_stream, pipeVars >>

(* lines 436-465 *)
MainWriteHeader ==
    /\ mpc = "open"
    /\ data_stream' = Append(data_stream, Header)
    /\ img_index' = 0
    /\ mpc' = "loop"
    /\ UNCHANGED << input_images, readable, exit_code, pipeVars >>

(* lines 469-477, an iteration whose processImage returns true *)
MainProcessOk ==
    /\ mpc = "loop"
    /\ img_index < Len(input_images)
    /\ LET r == processImage(input_images[img_index + 1],
                             input_images[img_index + 1] \in readable)
       IN /\ r.ok
          /\ data_stream' = Append(data_stream, r.result)
    /\ img_index' = img_index + 1
    /\ UNCHANGED << mpc, input_images, readable, exit_code, pipeVars >>

(* lines 472-475, an iteration whose processImage returns false *)
MainProcessFail ==
    /\ mpc = "loop"
    /\ img_index < Len(input_images)
    /\ LET r == processImage(input_images[img_index + 1],
                             input_images[img_index + 1] \in readable)
       IN ~r.ok
    /\ exit_code' = << -1 >>
    /\ mpc' = "returned"
    /\ UNCHANGED << input_images, readable, img_index, data_stream, pipeVars >>

(* lines 478-480 *)
MainLoopExit ==
    /\ mpc = "loop"
    /\ ~(img_index < Len(input_images))
    /\ exit_code' = << 0 >>
    /\ mpc' = "returned"
    /\ UNCHANGED << input_images, readable, img_index, data_stream, pipeVars >>

NoMetrics == [size |-> 0, aggregate_diameter |-> 0, aggregate_aspect_ratio |-> 0,
              count |-> [b \in 0..(NUM_BINS - 1) |-> 0]]

MainIdle ==
    /\ mpc = "idle"
    /\ input_images = << >>
    /\ readable = {}
    /\ img_index = 0
    /\ data_stream = << >>
    /\ exit_code = 0

PipeStart ==
    /\ pc = "contourCalc"
    /\ validity_mask = << >>
    /\ parent_area = << >>
    /\ index = 0
    /\ cntr_list = << >>
    /\ index_hole = -1
    /\ area_hole = 0
    /\ filtered_contours = << >>
    /\ filtered_contour_mask = << >>
    /\ filtered_contours_area = << >>
    /\ metrics = NoMetrics

(* the tracer handed over a forest *)
Init ==
    /\ n \in 0..MaxContours
    /\ contours \in ContourVectors(n, Shapes)
    /\ hierarchy \in WellFormedHierarchies(n)
    /\ PipeStart
    /\ MainIdle

Next ==
    \/ ContourCalcBegin
    \/ OuterSkipChild
    \/ OuterSkipSmall
    \/ OuterStartWalk
    \/ WalkStep
    \/ WalkExit
    \/ OuterExit
    \/ FilterCellsStep
    \/ SeparationMetricsStep

Spec == Init /\ [][Next]_vars

(* the tracer handed over links with a cycle or an index past the end *)
InitMalformed ==
    /\ n \in 1..MaxContours
    /\ contours \in ContourVectors(n, MalformedShapes)
    /\ hierarchy \in MalformedHierarchies(n)
    /\ PipeStart
    /\ MainIdle

NextMalformed ==
    \/ Next
    \/ WalkStepOutOfRange
    \/ WalkExitOutOfRange

SpecMalformed == InitMalformed /\ [][NextMalformed]_vars

PipeIdle ==
    /\ pc = "idle"
    /\ n = 0
    /\ contours = << >>
    /\ hierarchy = << >>
    /\ validity_mask = << >>
    /\ parent_area = << >>
    /\ index = 0
    /\ cntr_list = << >>
    /\ index_hole = -1
    /\ area_hole = 0
    /\ filtered_contours = << >>
    /\ filtered_contour_mask = << >>
    /\ filtered_contours_area = << >>
    /\ metrics = NoMetrics

(* main after image_list.dat has been read (lines 419-425) *)
InitBatch ==
    /\ mpc = "open"
    /\ input_images \in ImageLists
    /\ readable \in SUBSET ImageNames
    /\ img_index = 0
    /\ data_stream = << >>
    /\ exit_code = << >>
    /\ PipeIdle

NextBatch ==
    \/ MainOpenFail
    \/ MainWriteHeader
    \/ MainProcessOk
    \/ MainProcessFail
    \/ MainLoopExit

SpecBatch == InitBatch /\ [][NextBatch]_vars

(* ---------------------------------------------------------------------- *)
(* Properties                                                             *)
(* ---------------------------------------------------------------------- *)
Polygons == 0..(n - 1)

Assigned == DOMAIN validity_mask = Polygons /\ n > 0

Resolved == pc \in {"filterCells", "separationMetrics", "done"}

Filtered == pc \in {"separationMetrics", "done"}

RECURSIVE SetSum(_, _)
SetSum(S, f) ==
    IF S = {} THEN 0
    ELSE LET x == CHOOSE y \in S : TRUE IN f[x] + SetSum(S \ {x}, f)

AreaOf == [i \in Polygons |-> contours[i].area]

Holes(i) == HoleChain(hierarchy, n, i)

ExpectedNet(i) == AreaOf[i] - SetSum(Holes(i), AreaOf)

Rejected(i) ==
    /\ ParentLink(hierarchy, i) = -1
    /\ (AreaOf[i] < min_area \/ ExpectedNet(i) < min_area)

(* C1: the batch loop skips an image whose processing fails and goes on,  *)
(* so that when main returns after writing the header the report holds    *)
(* exactly one row per image of the list that can be processed, in order. *)
IsReadable(name) == name \in readable

C1_BatchContinues ==
    (mpc = "returned" /\ data_stream # << >>) =>
        [k \in 1..(Len(data_stream) - 1) |-> data_stream[k + 1][1]]
            = SelectSeq(input_images, IsReadable)

(* C2: on a malformed hierarchy the hole walk fails fast: a step standing *)
(* on a link outside 0..n-1, or on a polygon the walk already collected,  *)
(* ends the processing and commits nothing.                               *)
OnMalformedLink ==
    /\ pc = "walk"
    /\ index_hole > -1
    /\ \/ ~InRange(index_hole)
       \/ \E k \in 2..Len(cntr_list) : cntr_list[k] = index_hole

C2_FailFast ==
    [][OnMalformedLink =>
          (pc' = "crashed" /\ validity_mask' = validity_mask
                           /\ parent_area' = parent_area)]_vars

(* C3: the aggregator bins every surviving object, and computes its       *)
(* diameter, from the net area the resolver stored for it.                *)
ClampedBin(area) ==
    LET q == area \div BIN_AREA
    IN IF q > NUM_BINS - 1 THEN NUM_BINS - 1 ELSE q

RECURSIVE DiameterSum(_, _)
DiameterSum(areas, k) ==
    IF k > Len(areas) THEN 0 ELSE Diameter(areas[k]) + DiameterSum(areas, k + 1)

C3_MetricsFromNetArea ==
    pc = "done" =>
        /\ \A b \in 0..(NUM_BINS - 1) :
              metrics.count[b] =
                 Cardinality({ k \in 1..Len(filtered_contours_area) :
                                 ClampedBin(filtered_contours_area[k]) = b })
        /\ metrics.aggregate_diameter = DiameterSum(filtered_contours_area, 1)

(* C4: after resolution a parentless polygon whose external area, or      *)
(* whose external area minus the area of its hole chain, is below         *)
(* min_area is Invalid with no net area, and so is every polygon of its   *)
(* hole chain.                                                            *)
C4_RejectionPropagation ==
    (Resolved /\ n > 0) =>
        \A i \in Polygons :
            Rejected(i) =>
                \A j \in {i} \cup Holes(i) :
                    validity_mask[j] = INVALID_CNTR /\ parent_area[j] = 0

C4_Witness ==
    /\ Resolved
    /\ n > 0
    /\ \E i \in Polygons :
          /\ Rejected(i)
          /\ AreaOf[i] >= min_area
          /\ \E j \in Holes(i) : AreaOf[j] >= min_area

(* C5: the net area recorded for an Object is its external area minus the *)
(* areas of the polygons tagged Hole under it, and lies between min_area  *)
(* and the external area; every other polygon has recorded area 0.        *)
TaggedHoles(i) ==
    { j \in Polygons : ParentLink(hierarchy, j) = i /\ validity_mask[j] = CHILD_CNTR }

C5_AreaConservation ==
    Assigned =>
        \A i \in Polygons :
            IF validity_mask[i] = PARENT_CNTR
            THEN /\ parent_area[i] = AreaOf[i] - SetSum(TaggedHoles(i), AreaOf)
                 /\ min_area <= parent_area[i]
                 /\ parent_area[i] <= AreaOf[i]
            ELSE parent_area[i] = 0

C5_Witness ==
    /\ Resolved
    /\ Assigned
    /\ \E i \in Polygons :
          /\ validity_mask[i] = PARENT_CNTR
          /\ TaggedHoles(i) # {}
          /\ parent_area[i] < AreaOf[i]
    /\ \E i \in Polygons : validity_mask[i] = INVALID_CNTR /\ AreaOf[i] > 0

(* C6: a polygon is in the filtered output exactly when it is an Object   *)
(* with at least 5 points and a closed perimeter of at least 20; the      *)
(* survivors keep their input order, and each output index carries the    *)
(* polygon, its role and its net area.                                    *)
Survives(i) ==
    /\ validity_mask[i] = PARENT_CNTR
    /\ contours[i].points >= 5
    /\ contours[i].arc >= 20000

C6_FilterAcceptance ==
    Filtered =>
        /\ Len(filtered_contour_mask) = Len(filtered_contours)
        /\ Len(filtered_contours_area) = Len(filtered_contours)
        /\ { filtered_contours[k].id : k \in 1..Len(filtered_contours) }
              = { i \in Polygons : Survives(i) }
        /\ \A k \in 1..Len(filtered_contours) :
              LET i == filtered_contours[k].id
              IN /\ filtered_contours[k] = contours[i]
                 /\ filtered_contour_mask[k] = validity_mask[i]
                 /\ filtered_contours_area[k] = parent_area[i]
        /\ \A k, l \in 1..Len(filtered_contours) :
              k < l => filtered_contours[k].id < filtered_contours[l].id

C6_Witness ==
    /\ Filtered
    /\ \E i \in Polygons :
          /\ validity_mask[i] = PARENT_CNTR
          /\ contours[i].points = 4
          /\ contours[i].arc >= 20000
    /\ \E i \in Polygons :
          /\ validity_mask[i] = PARENT_CNTR
          /\ contours[i].points >= 5
          /\ contours[i].arc = 19999
    /\ \E k \in 1..Len(filtered_contours) : filtered_contours[k].arc = 20000

(* C7: every polygon tagged Object has parent link -1, and a polygon two  *)
(* or more levels deep is never collected by a hole walk and is Invalid.  *)
Deep(i) ==
    /\ ParentLink(hierarchy, i) > -1
    /\ ParentLink(hierarchy, ParentLink(hierarchy, i)) > -1

C7_OnlyParentlessObjects ==
    /\ Assigned =>
          \A i \in Polygons :
              /\ validity_mask[i] = PARENT_CNTR => ParentLink(hierarchy, i) = -1
              /\ Deep(i) => validity_mask[i] = INVALID_CNTR /\ parent_area[i] = 0
    /\ \A k \in 1..Len(cntr_list) : ~Deep(cntr_list[k])

C7_Witness ==
    /\ Resolved
    /\ Assigned
    /\ \E i \in Polygons :
          /\ Deep(i)
          /\ AreaOf[i] >= min_area
          /\ validity_mask[ParentLink(hierarchy, i)] = CHILD_CNTR

(* C9: every polygon has one role; a Hole has nonzero area and is on the  *)
(* hole chain of an Object; a role other than Invalid is never changed by *)
(* a later step of the resolution.                                        *)
RolesConsistent ==
    Assigned =>
        /\ validity_mask \in [Polygons -> HierarchyType]
        /\ \A j \in Polygons :
              validity_mask[j] = CHILD_CNTR =>
                  /\ AreaOf[j] # 0
                  /\ \E i \in Polygons :
                        validity_mask[i] = PARENT_CNTR /\ j \in Holes(i)
        /\ \A i \in Polygons :
              validity_mask[i] = PARENT_CNTR =>
                  \A j \in Holes(i) :
                      AreaOf[j] = 0 => validity_mask[j] = INVALID_CNTR

RolesKept ==
    \A i \in DOMAIN validity_mask :
        validity_mask[i] # INVALID_CNTR => validity_mask'[i] = validity_mask[i]

C9_RoleAssignment == [](RolesConsistent) /\ [][RolesKept]_vars

C9_Witness ==
    /\ pc = "walk"
    /\ Assigned
    /\ \E i \in Polygons :
          /\ validity_mask[i] = PARENT_CNTR
          /\ i < index
          /\ \E j \in Holes(i) : validity_mask[j] = CHILD_CNTR /\ j > index

(* C8: each object handed to the aggregator increments the one bin        *)
(* floor(area / BIN_AREA) clamped to NUM_BINS - 1, so the bins sum to the *)
(* object count and an empty input gives count 0 and all bins 0.          *)
C8_Binning ==
    pc = "done" =>
        /\ DOMAIN metrics.count = 0..(NUM_BINS - 1)
        /\ metrics.size = Len(filtered_contours)
        /\ \A b \in 0..(NUM_BINS - 1) :
              metrics.count[b] =
                 Cardinality({ k \in 1..Len(filtered_contours) :
                                 ClampedBin(filtered_contours[k].area) = b })
        /\ SetSum(0..(NUM_BINS - 1), metrics.count) = metrics.size
        /\ filtered_contours = << >> => metrics = NoMetrics

C8_Witness ==
    /\ pc = "done"
    /\ metrics.count[1] >= 1
    /\ metrics.count[NUM_BINS - 1] >= 1
    /\ \E k \in 1..Len(filtered_contours) : filtered_contours[k].area = 45
    /\ \E k \in 1..Len(filtered_contours) : filtered_contours[k].area = 10000

(* C10: the header is the first line of the report; the rows after it are *)
(* the records of a prefix of the image list, row k for image k, each     *)
(* written after that image was processed successfully and holding the    *)
(* image name, then the green, the red and the white record.              *)
C10_ReportOrdering ==
    /\ data_stream # << >> => data_stream[1] = Header
    /\ mpc = "loop" => Len(data_stream) = img_index + 1
    /\ Len(data_stream) <= Len(input_images) + 1
    /\ \A k \in 1..(Len(data_stream) - 1) :
          /\ input_images[k] \in readable
          /\ data_stream[k + 1] =
                << input_images[k],
                   ChannelRecord(ChannelOrder[1], input_images[k]),
                   ChannelRecord(ChannelOrder[2], input_images[k]),
                   ChannelRecord(ChannelOrder[3], input_images[k]) >>

C10_Witness ==
    /\ mpc = "returned"
    /\ Len(data_stream) = 3
    /\ Len(input_images) = 3
    /\ data_stream[2][1] # data_stream[3][1]
    /\ exit_code = << -1 >>

====
